---- MODULE Spec2Model ----
(***************************************************************************)
(* The Outline effect of libopenshot (src/src/effects/Outline.cpp).        *)
(*                                                                         *)
(* State: effect instances (five Keyframe curves plus the inherited base   *)
(* properties), a serialization string, the image of the frame handed to   *)
(* each GetFrame invocation, and each invocation's position and locals.    *)
(*                                                                         *)
(* Conventions                                                             *)
(*   - a double is a fixed-point number of tenths (254.6 is 2546);         *)
(*   - a pixel is the tuple of its four bytes in memory order;             *)
(*   - an image or cv::Mat is [rows, cols, data], data a function on the   *)
(*     positions <<x, y>>;                                                 *)
(*   - the host is little-endian, as the code's channels[3] (alpha is the  *)
(*     fourth byte) assumes.                                               *)
(***************************************************************************)
EXTENDS Integers, Sequences, FiniteSets, TLC

VARIABLES fx, doc, last, frame, thr

vars == <<fx, doc, last, frame, thr>>

(***************************************************************************)
(* Bounds.                                                                 *)
(***************************************************************************)
\* frame numbers run over 1..MaxFrame
MaxFrame == 2

\* an instance serves at most MaxCalls GetFrame and PropertiesJSON calls
MaxCalls == 2

Frames == 1..MaxFrame

(***************************************************************************)
(* Arithmetic helpers.                                                     *)
(***************************************************************************)
RECURSIVE SumSeq(_)
SumSeq(s) == IF s = <<>> THEN 0 ELSE Head(s) + SumSeq(Tail(s))

Abs(a) == IF a < 0 THEN -a ELSE a

\* C++ conversion of a double (tenths) quotient to int: truncation toward zero
TruncDiv(a, b) == IF a >= 0 THEN a \div b ELSE -((-a) \div b)

\* int v = <double>: truncation toward zero
DoubleToInt(v) == TruncDiv(v, 10)

\* cv::saturate_cast<uchar>(int)
SaturateU8(v) == IF v < 0 THEN 0 ELSE IF v > 255 THEN 255 ELSE v

\* cvRound of a number of tenths: round half to even
CvRound(v) ==
    LET q == v \div 10
        r == v % 10
    IN  IF r < 5 THEN q
        ELSE IF r > 5 THEN q + 1
        ELSE IF q % 2 = 0 THEN q ELSE q + 1

RECURSIVE BitOr(_, _)
BitOr(a, b) ==
    IF a = 0 THEN b
    ELSE IF b = 0 THEN a
    ELSE (IF a % 2 = 1 \/ b % 2 = 1 THEN 1 ELSE 0) + 2 * BitOr(a \div 2, b \div 2)

(***************************************************************************)
(* Images and matrices.                                                    *)
(***************************************************************************)
Pos(cols, rows) == (0..(cols - 1)) \X (0..(rows - 1))

\* the element array of a matrix is stored, not recomputed on access:
\* f @@ <<>> is the function f, tabulated
Stored(f) == f @@ <<>>

Mat(rows, cols, data) == [rows |-> rows, cols |-> cols, data |-> Stored(data)]

\* a default-constructed cv::Mat, and a null QImage
EmptyMat == Mat(0, 0, <<>>)

IsEmpty(m) == m.rows = 0 \/ m.cols = 0

PosOf(m) == Pos(m.cols, m.rows)

(***************************************************************************)
(* OpenCV operations used by GetFrame, by their documented behaviour.      *)
(***************************************************************************)
\* cv::borderInterpolate(p, len, BORDER_REFLECT_101)
RECURSIVE BorderReflect101(_, _)
BorderReflect101(p, len) ==
    IF 0 <= p /\ p < len THEN p
    ELSE IF len = 1 THEN 0
    ELSE IF p < 0 THEN BorderReflect101(-p, len)
    ELSE BorderReflect101(2 * len - 2 - p, len)

\* cv::borderInterpolate(p, len, BORDER_REPLICATE)
BorderReplicate(p, len) == IF p < 0 THEN 0 ELSE IF p >= len THEN len - 1 ELSE p

\* kernel size derived from sigma (tenths) for 8-bit input:
\* cvRound(sigma*3*2 + 1) | 1
AutoKSize(sigma) ==
    LET k == CvRound(6 * sigma + 10)
    IN  IF k % 2 = 1 THEN k ELSE k + 1

\* cv::getGaussianKernel in 8-bit fixed point (weights sum to 256), for the
\* sigmas (tenths) the model reaches; a kernel of size 1 is <<256>>
GaussianKernel(sigma, ksize) ==
    IF ksize = 1 THEN <<256>>
    ELSE CASE sigma = 8  -> <<0, 6, 58, 128, 58, 6, 0>>
           [] sigma = 10 -> <<1, 14, 62, 102, 62, 14, 1>>
           [] sigma = 20 -> <<1, 2, 7, 16, 31, 45, 52, 45, 31, 16, 7, 2, 1>>

\* the separable filter: both passes in fixed point, one rounding at the end
SepFilter(src, kx, ky) ==
    LET w  == src.cols
        h  == src.rows
        rx == Len(kx) \div 2
        ry == Len(ky) \div 2
        row == Stored([p \in PosOf(src) |->
                  SumSeq([i \in 1..Len(kx) |->
                     kx[i] * src.data[<<BorderReflect101(p[1] + i - 1 - rx, w), p[2]>>]])])
    IN  Mat(h, w, [p \in PosOf(src) |->
                  (SumSeq([j \in 1..Len(ky) |->
                     ky[j] * row[<<p[1], BorderReflect101(p[2] + j - 1 - ry, h)>>]])
                   + 32768) \div 65536])

\* cv::GaussianBlur(src, dst, Size(0,0), sigma, sigma, BORDER_DEFAULT):
\* [ok |-> FALSE] is the cv::Exception of a failed CV_Assert
GaussianBlur(src, sigma) ==
    LET auto == IF sigma > 0 THEN AutoKSize(sigma) ELSE 0
        kw   == IF src.cols = 1 THEN 1 ELSE auto
        kh   == IF src.rows = 1 THEN 1 ELSE auto
    IN  IF IsEmpty(src) THEN [ok |-> FALSE, mat |-> EmptyMat]
        ELSE IF kw = 1 /\ kh = 1 THEN [ok |-> TRUE, mat |-> src]
        ELSE IF kw <= 0 \/ kh <= 0 THEN [ok |-> FALSE, mat |-> EmptyMat]
        ELSE [ok |-> TRUE,
              mat |-> SepFilter(src, GaussianKernel(sigma, kw), GaussianKernel(sigma, kh))]

\* cv::threshold(src, dst, thresh, maxval, THRESH_BINARY)
Threshold(src, thresh, maxval) ==
    Mat(src.rows, src.cols,
        [p \in PosOf(src) |-> IF src.data[p] > thresh THEN maxval ELSE 0])

\* cv::Canny(src, edges, low, high): aperture 3, L1 gradient magnitude
Canny(src, low, high) ==
    LET w == src.cols
        h == src.rows
        P == PosOf(src)
        at(x, y) == src.data[<<BorderReplicate(x, w), BorderReplicate(y, h)>>]
        dx == Stored([p \in P |->
                 (at(p[1] + 1, p[2] - 1) - at(p[1] - 1, p[2] - 1))
               + 2 * (at(p[1] + 1, p[2]) - at(p[1] - 1, p[2]))
               + (at(p[1] + 1, p[2] + 1) - at(p[1] - 1, p[2] + 1))])
        dy == Stored([p \in P |->
                 (at(p[1] - 1, p[2] + 1) - at(p[1] - 1, p[2] - 1))
               + 2 * (at(p[1], p[2] + 1) - at(p[1], p[2] - 1))
               + (at(p[1] + 1, p[2] + 1) - at(p[1] + 1, p[2] - 1))])
        mag(x, y) == IF <<x, y>> \in P
                     THEN Abs(dx[<<x, y>>]) + Abs(dy[<<x, y>>]) ELSE 0
        \* non-maximum suppression along the quantised gradient direction
        localMax(p) ==
            LET x    == p[1]
                y    == p[2]
                m    == mag(x, y)
                ax   == Abs(dx[p])
                ay   == Abs(dy[p]) * 32768
                tg22 == ax * 13573
                tg67 == tg22 + ax * 65536
                s    == IF (dx[p] < 0) # (dy[p] < 0) THEN -1 ELSE 1
            IN  IF ay < tg22 THEN m > mag(x - 1, y) /\ m >= mag(x + 1, y)
                ELSE IF ay > tg67 THEN m > mag(x, y - 1) /\ m >= mag(x, y + 1)
                ELSE m > mag(x - s, y - 1) /\ m > mag(x + s, y + 1)
        cand   == {p \in P : mag(p[1], p[2]) > low /\ localMax(p)}
        strong == {p \in cand : mag(p[1], p[2]) > high}
        near(p, q) == Abs(p[1] - q[1]) <= 1 /\ Abs(p[2] - q[2]) <= 1
        \* hysteresis: candidates 8-connected to a strong edge
        grow[i \in 0..Cardinality(P)] ==
            IF i = 0 THEN strong
            ELSE LET g == grow[i - 1]
                 IN  g \cup {p \in cand : \E q \in g : near(p, q)}
        edges == grow[Cardinality(P)]
    IN  Mat(h, w, [p \in P |-> IF p \in edges THEN 255 ELSE 0])

\* cv::bitwise_or(a, b, dst)
BitwiseOr(a, b) ==
    Mat(a.rows, a.cols, [p \in PosOf(a) |-> BitOr(a.data[p], b.data[p])])

\* cv::Mat(size, CV_8UC4, cv::Scalar(v0, v1, v2, v3)): every element is the
\* scalar, each component saturated to a byte
SolidMat(rows, cols, v0, v1, v2, v3) ==
    Mat(rows, cols,
        [p \in Pos(cols, rows) |->
            <<SaturateU8(v0), SaturateU8(v1), SaturateU8(v2), SaturateU8(v3)>>])

\* src.copyTo(dst, mask): dst is reallocated and zeroed unless it already has
\* src's size; then the elements under a nonzero mask are copied
CopyTo(src, dst, mask) ==
    LET keep == dst.rows = src.rows /\ dst.cols = src.cols /\ ~IsEmpty(dst)
    IN  Mat(src.rows, src.cols,
            [p \in PosOf(src) |->
                IF mask.data[p] # 0 THEN src.data[p]
                ELSE IF keep THEN dst.data[p] ELSE <<0, 0, 0, 0>>])

(***************************************************************************)
(* Qt image conversion used by BGRACvMatToQImage.                          *)
(***************************************************************************)
\* qPremultiply of one channel c by alpha a
Premultiply(c, a) ==
    IF a = 255 THEN c
    ELSE LET t == c * a IN (t + (t \div 256) + 128) \div 256

\* QImage::convertToFormat(Format_RGBA8888_Premultiplied) of a Format_ARGB32
\* pixel: the 32-bit word 0xAARRGGBB lies in memory as B, G, R, A; the result
\* lies in memory as R, G, B, A with the colours multiplied by alpha
ConvertPixel(px) ==
    <<Premultiply(px[3], px[4]), Premultiply(px[2], px[4]),
      Premultiply(px[1], px[4]), px[4]>>

(***************************************************************************)
(* Keyframe curves and JSON values (the collaborators of the effect).      *)
(***************************************************************************)
\* Keyframe(double value): the constant curve
Keyframe(v) == [f \in Frames |-> v]

\* a curve with one value on frame 1 and another on the later frames
Ramp(a, b) == [f \in Frames |-> IF f = 1 THEN a ELSE b]

\* Keyframe::GetValue(index)
GetValue(k, n) == k[n]

JNull == [kind |-> "null", str |-> "", Points |-> <<>>]

JString(s) == [kind |-> "string", str |-> s, Points |-> <<>>]

\* Json::Value::isNull()
isNull(j) == j.kind = "null"

\* Keyframe::JsonValue()
KeyframeJsonValue(k) == [kind |-> "object", str |-> "", Points |-> k]

\* Keyframe::SetJsonValue(root): a value of the wrong type raises a
\* std::exception (Json::LogicError) and the curve is taken to keep its points
KeyframeSetJsonValue(k, j) ==
    IF j.kind = "object" THEN [curve |-> j.Points, threw |-> FALSE]
    ELSE [curve |-> k, threw |-> TRUE]

\* Json::Value::toStyledString()
toStyledString(root) == [json |-> root, complete |-> TRUE]

\* openshot::stringToJson(value): a text that is not a complete document
\* raises InvalidJSON
stringToJson(value) ==
    [root |-> value.json, threw |-> ~value.complete]

(***************************************************************************)
(* The effect.                                                             *)
(***************************************************************************)
CurveKeys == <<"width", "red", "green", "blue", "alpha">>

\* Outline::init_effect_details
init_effect_details ==
    [class_name |-> "Outline", name |-> "Outline",
     description |-> "Add outline around the image with transparent background.",
     has_audio |-> FALSE, has_video |-> TRUE]

\* Outline::Outline(Keyframe width, Keyframe red, Keyframe green,
\*                  Keyframe blue, Keyframe alpha)
OutlineWith(width, red, green, blue, alpha) ==
    [info |-> init_effect_details, id |-> "",
     width |-> width, red |-> red, green |-> green, blue |-> blue, alpha |-> alpha]

\* Outline::Outline()
Outline == OutlineWith(Keyframe(30), Keyframe(0), Keyframe(0), Keyframe(0), Keyframe(2550))

Curves(e) == [k \in {"width", "red", "green", "blue", "alpha"} |-> e[k]]

\* EffectBase::JsonValue(): the inherited properties
EffectBaseJsonValue(e) ==
    [id |-> JString(e.id), type |-> JNull,
     width |-> JNull, red |-> JNull, green |-> JNull, blue |-> JNull, alpha |-> JNull]

\* EffectBase::SetJsonValue(root): the inherited properties, set when present
EffectBaseSetJsonValue(e, root) ==
    IF isNull(root.id) THEN e ELSE [e EXCEPT !.id = root.id.str]

\* a JsonValue that writes the red curve under "blue" and the blue curve
\* under "red"
JsonValueSwapped(e) ==
    [EffectBaseJsonValue(e) EXCEPT
        !.type  = JString(e.info.class_name),
        !.width = KeyframeJsonValue(e.width),
        !.red   = KeyframeJsonValue(e.blue),
        !.green = KeyframeJsonValue(e.green),
        !.blue  = KeyframeJsonValue(e.red),
        !.alpha = KeyframeJsonValue(e.alpha)]

\* Outline::JsonValue
JsonValue(e) ==
    [EffectBaseJsonValue(e) EXCEPT
        !.type  = JString(e.info.class_name),
        !.width = KeyframeJsonValue(e.width),
        !.red   = KeyframeJsonValue(e.red),
        !.green = KeyframeJsonValue(e.green),
        !.blue  = KeyframeJsonValue(e.blue),
        !.alpha = KeyframeJsonValue(e.alpha)]

\* Outline::Json
Json(e) == toStyledString(JsonValue(e))

\* one "if (!root[key].isNull()) key.SetJsonValue(root[key]);" of SetJsonValue,
\* skipped once an earlier statement has thrown
LoadKey(r, root, k) ==
    IF r.threw \/ isNull(root[k]) THEN r
    ELSE LET s == KeyframeSetJsonValue(r.effect[k], root[k])
         IN  [effect |-> [r.effect EXCEPT ![k] = s.curve], threw |-> s.threw]

RECURSIVE LoadKeys(_, _, _)
LoadKeys(r, root, i) ==
    IF i > Len(CurveKeys) THEN r
    ELSE LoadKeys(LoadKey(r, root, CurveKeys[i]), root, i + 1)

\* a SetJsonValue that loads the green curve from root["red"]
SetJsonValueMisrouted(e, root) ==
    LoadKeys([effect |-> EffectBaseSetJsonValue(e, root), threw |-> FALSE],
             [root EXCEPT !.green = root.red], 1)

\* Outline::SetJsonValue: the instance it leaves, and whether it threw
SetJsonValue(e, root) ==
    LoadKeys([effect |-> EffectBaseSetJsonValue(e, root), threw |-> FALSE], root, 1)

\* Outline::SetJson: any std::exception of the try block becomes InvalidJSON
SetJson(e, value) ==
    LET parsed == stringToJson(value)
    IN  IF parsed.threw THEN [effect |-> e, error |-> "InvalidJSON"]
        ELSE LET r == SetJsonValue(e, parsed.root)
             IN  [effect |-> r.effect,
                  error |-> IF r.threw THEN "InvalidJSON" ELSE "none"]

\* Outline::PropertiesJSON: one descriptor per curve
PropertiesJSON(e, n) ==
    [width |-> [name |-> "Width", value |-> GetValue(e.width, n), min |-> 0, max |-> 1000],
     red   |-> [name |-> "Red",   value |-> GetValue(e.red, n),   min |-> 0, max |-> 255],
     green |-> [name |-> "Green", value |-> GetValue(e.green, n), min |-> 0, max |-> 255],
     blue  |-> [name |-> "Blue",  value |-> GetValue(e.blue, n),  min |-> 0, max |-> 255],
     alpha |-> [name |-> "Alpha", value |-> GetValue(e.alpha, n), min |-> 0, max |-> 255]]

(***************************************************************************)
(* GetFrame, statement by statement.  An invocation's locals carry pc, the *)
(* line of the next statement; the three final values of pc are the ways   *)
(* an invocation ends.                                                     *)
(***************************************************************************)
\* cv::Canny thresholds and the cv::threshold arguments of GetFrame
CannyLow == 250

CannyHigh == 255

ThresholdValue == 0

ThresholdMax == 255

\* sigma of the edge blur, in tenths
EdgeSigma == 8

Terminal == {"returned", "cv::Exception", "crashed"}

\* locals of which final_image is static: it keeps the matrix the previous
\* invocation, whose locals are prev, left in it
EnterGetFrameStatic(prev, n) ==
    [pc |-> "L53", n |-> n,
     sigmaValue |-> 0, redValue |-> 0, greenValue |-> 0, blueValue |-> 0,
     alphaValue |-> 0,
     cv_image |-> [rows |-> 0, cols |-> 0],
     channels |-> <<>>,
     alpha_mask |-> EmptyMat, outline_mask |-> EmptyMat, edge_mask |-> EmptyMat,
     blurred_edge_mask |-> EmptyMat, solid_color_mat |-> EmptyMat,
     final_image |-> prev.final_image, new_frame_image |-> EmptyMat]

\* the locals of an invocation at its first statement, whatever locals prev
\* the previous invocation ended with: the ints not yet assigned, every
\* cv::Mat default-constructed
EnterGetFrame(prev, n) ==
    [pc |-> "L53", n |-> n,
     sigmaValue |-> 0, redValue |-> 0, greenValue |-> 0, blueValue |-> 0,
     alphaValue |-> 0,
     cv_image |-> [rows |-> 0, cols |-> 0],
     channels |-> <<>>,
     alpha_mask |-> EmptyMat, outline_mask |-> EmptyMat, edge_mask |-> EmptyMat,
     blurred_edge_mask |-> EmptyMat, solid_color_mat |-> EmptyMat,
     final_image |-> EmptyMat, new_frame_image |-> EmptyMat]

\* the locals of a thread that has made no call
Idle == [EnterGetFrame([final_image |-> EmptyMat], 1) EXCEPT !.pc = "idle"]

\* Outline::QImageToBGRACvMat: a header over the QImage's own bytes
QImageToBGRACvMat(qimage) == [rows |-> qimage.rows, cols |-> qimage.cols]

\* the matrix cv_image denotes: its header over the bytes of the frame's image
CvImage(L, F) == Mat(L.cv_image.rows, L.cv_image.cols, F.data)

\* cv::split(m, channels): an empty m releases the vector
Split(m) ==
    IF IsEmpty(m) THEN <<>>
    ELSE [c \in 1..4 |-> Mat(m.rows, m.cols, [p \in PosOf(m) |-> m.data[p][c]])]

\* Outline::BGRACvMatToQImage
BGRACvMatToQImage(img) ==
    Mat(img.rows, img.cols, [p \in PosOf(img) |-> ConvertPixel(img.data[p])])

\* the set of [loc, img] one statement of GetFrame leads to, from locals L
\* and frame image F, on effect e
Step(e, L, F) ==
    LET to(pc, M) == {[loc |-> [M EXCEPT !.pc = pc], img |-> F]}
    IN  CASE L.pc = "L53" ->
               to("L54", [L EXCEPT !.sigmaValue = TruncDiv(GetValue(e.width, L.n), 30)])
          [] L.pc = "L54" ->
               to("L55", [L EXCEPT !.redValue = DoubleToInt(GetValue(e.red, L.n))])
          [] L.pc = "L55" ->
               to("L56", [L EXCEPT !.greenValue = DoubleToInt(GetValue(e.green, L.n))])
          [] L.pc = "L56" ->
               to("L57", [L EXCEPT !.blueValue = DoubleToInt(GetValue(e.blue, L.n))])
          [] L.pc = "L57" ->
               to("L60", [L EXCEPT !.alphaValue = DoubleToInt(GetValue(e.alpha, L.n))])
          [] L.pc = "L60" ->
               to("L64", [L EXCEPT !.cv_image = QImageToBGRACvMat(F)])
          [] L.pc = "L64" ->
               to("L65", [L EXCEPT !.channels = Split(CvImage(L, F))])
          [] L.pc = "L65" ->
               \* channels[3] of a released vector is undefined: the build
               \* either traps, or reads the destroyed (empty) element
               IF Len(L.channels) = 4
               THEN to("L73", [L EXCEPT !.alpha_mask = L.channels[4]])
               ELSE to("crashed", L) \cup to("L73", [L EXCEPT !.alpha_mask = EmptyMat])
          [] L.pc = "L73" ->
               LET b == GaussianBlur(L.alpha_mask, 10 * L.sigmaValue)
               IN  IF b.ok THEN to("L74", [L EXCEPT !.outline_mask = b.mat])
                   ELSE to("cv::Exception", L)
          [] L.pc = "L74" ->
               to("L79", [L EXCEPT !.outline_mask =
                             Threshold(L.outline_mask, ThresholdValue, ThresholdMax)])
          [] L.pc = "L79" ->
               to("L83", [L EXCEPT !.edge_mask = Canny(L.outline_mask, CannyLow, CannyHigh)])
          [] L.pc = "L83" ->
               LET b == GaussianBlur(L.edge_mask, EdgeSigma)
               IN  IF b.ok THEN to("L87", [L EXCEPT !.blurred_edge_mask = b.mat])
                   ELSE to("cv::Exception", L)
          [] L.pc = "L87" ->
               to("L92", [L EXCEPT !.outline_mask =
                             BitwiseOr(L.outline_mask, L.blurred_edge_mask)])
          [] L.pc = "L92" ->
               to("L95", [L EXCEPT !.solid_color_mat =
                             SolidMat(L.cv_image.rows, L.cv_image.cols,
                                      L.blueValue, L.greenValue, L.redValue, L.alphaValue)])
          [] L.pc = "L95" ->
               to("L96", [L EXCEPT !.final_image =
                             CopyTo(L.solid_color_mat, L.final_image, L.outline_mask)])
          [] L.pc = "L96" ->
               to("L98", [L EXCEPT !.final_image =
                             CopyTo(CvImage(L, F), L.final_image, L.alpha_mask)])
          [] L.pc = "L98" ->
               to("L102", [L EXCEPT !.new_frame_image = BGRACvMatToQImage(L.final_image)])
          [] L.pc = "L102" ->
               {[loc |-> [L EXCEPT !.pc = "returned"], img |-> L.new_frame_image]}
          [] OTHER -> {}

\* every way GetFrame can end when it runs from L on F without interruption
RECURSIVE Run(_, _, _)
Run(e, L, F) ==
    IF L.pc \in Terminal THEN {[loc |-> L, img |-> F]}
    ELSE UNION {Run(e, o.loc, o.img) : o \in Step(e, L, F)}

\* Outline::GetFrame(frame, frame_number) on a frame whose image is F
GetFrame(e, prev, F, n) == Run(e, EnterGetFrame(prev, n), F)

(***************************************************************************)
(* Inputs.  A frame's image is held in Format_RGBA8888_Premultiplied: the  *)
(* bytes of a pixel are R, G, B, A with the colours no larger than alpha.  *)
(***************************************************************************)
Clear == <<0, 0, 0, 0>>

Red == <<255, 0, 0, 255>>

White == <<255, 255, 255, 255>>

Half == <<64, 32, 16, 128>>

Faint == <<1, 0, 0, 1>>

RowImage(s) == Mat(1, Len(s), [p \in Pos(Len(s), 1) |-> s[p[1] + 1]])

GridImage(g) == Mat(Len(g), Len(g[1]), [p \in Pos(Len(g[1]), Len(g)) |-> g[p[2] + 1][p[1] + 1]])

\* a null QImage: what a QImage of zero width or zero height is
NullImage == EmptyMat

Images ==
    { NullImage,
      RowImage(<<Red>>),
      RowImage(<<Red, Clear, Clear, Clear, Clear, Clear, Clear>>),
      RowImage(<<Clear, Half, Clear>>),
      RowImage(<<Faint, Clear, Clear>>),
      GridImage(<< <<Clear, Clear, Clear>>, <<Clear, Red, Clear>>, <<Clear, Clear, Clear>> >>),
      GridImage(<< <<White, White>>, <<White, White>> >>) }

WidthCurves == {Keyframe(30), Ramp(-30, 29), Ramp(0, 60)}

RedCurves == {Keyframe(0), Ramp(2546, 3000)}

GreenCurves == {Keyframe(0), Keyframe(1280)}

BlueCurves == {Keyframe(0), Ramp(-50, 2550)}

AlphaCurves == {Keyframe(2550), Ramp(1280, 0)}

Effects ==
    {OutlineWith(w, r, g, b, a) :
        w \in WidthCurves, r \in RedCurves, g \in GreenCurves,
        b \in BlueCurves, a \in AlphaCurves}

Inst == {"A", "B"}

Threads == {1, 2}

\* an unparsable text: the empty string
EmptyString == [json |-> EffectBaseJsonValue(Outline), complete |-> FALSE]

\* the record of the latest call: the operation, the instance it was made
\* on, its frame number or document, the string it returned, the error it
\* signalled, and how many calls the instance has served
NoCall == [op |-> "none", inst |-> "A", n |-> 0, arg |-> EmptyString,
           out |-> EmptyString, error |-> "none", calls |-> 0]

NoInvocation == [input |-> NullImage, loc |-> Idle]

\* every invocation working on the image of one and the same frame
SharedBuffer(t) == 1

\* the frame whose image invocation t works on: the one it was handed
BufferOf(t) == t

Crashed == \E t \in Threads : thr[t].loc.pc = "crashed"

(***************************************************************************)
(* The effect applied to frames by one caller.                             *)
(***************************************************************************)
Init ==
    /\ fx \in [Inst -> Effects \cup {Outline}]
    /\ fx["B"] = Outline
    /\ doc = EmptyString
    /\ last = NoCall
    /\ frame = [t \in Threads |-> NullImage]
    /\ thr = [t \in Threads |-> NoInvocation]

\* GetFrame(frame, n) on a frame holding img, run to its end
CallGetFrame(img, n) ==
    /\ ~Crashed
    /\ last.calls < MaxCalls
    /\ \E o \in GetFrame(fx["A"], thr[1].loc, img, n) :
          /\ thr' = [thr EXCEPT ![1] = [input |-> img, loc |-> o.loc]]
          /\ frame' = [frame EXCEPT ![BufferOf(1)] = o.img]
          /\ last' = [NoCall EXCEPT !.op = "GetFrame", !.n = n,
                                    !.error = IF o.loc.pc = "returned" THEN "none"
                                              ELSE o.loc.pc,
                                    !.calls = last.calls + 1]
    /\ UNCHANGED <<fx, doc>>

\* PropertiesJSON(n): const, returns a string
CallPropertiesJSON(n) ==
    /\ ~Crashed
    /\ last.calls < MaxCalls
    /\ last' = [NoCall EXCEPT !.op = "PropertiesJSON", !.n = n,
                              !.out = toStyledString(PropertiesJSON(fx["A"], n)),
                              !.calls = last.calls + 1]
    /\ UNCHANGED <<fx, doc, frame, thr>>

Next ==
    \/ \E img \in Images, n \in Frames : CallGetFrame(img, n)
    \/ \E n \in Frames : CallPropertiesJSON(n)

Spec == Init /\ [][Next]_vars

\* the latest call was a GetFrame that returned
Returned == last.op = "GetFrame" /\ thr[1].loc.pc = "returned"

\* the nearest integer to a number of tenths
RoundNearest(v) == IF v >= 0 THEN (v + 5) \div 10 ELSE -((5 - v) \div 10)

\* C1: after GetFrame has returned, every pixel whose input alpha is nonzero
\* has in the output image exactly the four channel values it had in the
\* input image.
C1_EdgePreserved ==
    Returned =>
        \A p \in PosOf(thr[1].input) :
            thr[1].input.data[p][4] # 0 => frame[1].data[p] = thr[1].input.data[p]

\* C5: a GetFrame or PropertiesJSON call changes no curve of the instance,
\* and a GetFrame call, whatever calls came before it, ends as GetFrame ends
\* when it is the first call on the instance with the same frame number and
\* input; any two runs of that first call that return leave the same image.
C5_NoCrossCallState ==
    [][/\ last'.op \in {"GetFrame", "PropertiesJSON"} => fx' = fx
       /\ last'.op = "GetFrame"
             => LET first == GetFrame(fx["A"], Idle, thr'[1].input, last'.n)
                IN  /\ [loc |-> thr'[1].loc, img |-> frame'[1]] \in first
                    /\ \A o1, o2 \in first :
                          (o1.loc.pc = "returned" /\ o2.loc.pc = "returned")
                              => o1.img = o2.img]_vars

\* the second call on the instance is a GetFrame that has returned an
\* outlined image with pixels left transparent
C5_Witness ==
    /\ Returned
    /\ last.calls = 2
    /\ frame[1] # thr[1].input
    /\ \E p \in PosOf(frame[1]) : frame[1].data[p] = Clear

\* C6: the red, green, blue and opacity the fill canvas is painted with are
\* the resolved curve values rounded to the nearest integer (254.6 paints 255).
C6_RoundedAtUse ==
    Returned =>
        LET e == fx["A"]
            n == last.n
        IN  \A p \in PosOf(thr[1].loc.solid_color_mat) :
                thr[1].loc.solid_color_mat.data[p] =
                    <<SaturateU8(RoundNearest(GetValue(e.blue, n))),
                      SaturateU8(RoundNearest(GetValue(e.green, n))),
                      SaturateU8(RoundNearest(GetValue(e.red, n))),
                      SaturateU8(RoundNearest(GetValue(e.alpha, n)))>>

\* C7: GetFrame on an image of zero width or height returns without an error
\* and leaves the frame with an image of the same zero area.
C7_ZeroAreaNoOp ==
    (last.op = "GetFrame" /\ IsEmpty(thr[1].input))
        => thr[1].loc.pc = "returned" /\ frame[1] = thr[1].input

\* the pixel the fill canvas shows at p in the output representation
FillAt(p) == ConvertPixel(thr[1].loc.solid_color_mat.data[p])

\* C9: every output pixel is the input pixel where the input alpha is
\* nonzero, else the fill colour with the resolved opacity where the final
\* compositing mask is nonzero, else fully transparent.
C9_ThreeWay ==
    Returned =>
        \A p \in PosOf(thr[1].input) :
            frame[1].data[p] =
                IF thr[1].input.data[p][4] # 0 THEN thr[1].input.data[p]
                ELSE IF thr[1].loc.outline_mask.data[p] # 0 THEN FillAt(p)
                ELSE Clear

\* C10: sigma is never negative, and for a resolved width below 3 sigma is 0
\* and the dilation blur passes the alpha mask through, so that GetFrame
\* returns.
C10_SmallWidth ==
    (last.op = "GetFrame" /\ ~IsEmpty(thr[1].input))
        => /\ thr[1].loc.sigmaValue >= 0
           /\ GetValue(fx["A"].width, last.n) < 30
                 => thr[1].loc.sigmaValue = 0 /\ thr[1].loc.pc = "returned"

(***************************************************************************)
(* Loading documents into a configured instance.                           *)
(***************************************************************************)
\* the curve a document carries for each key
DocCurve ==
    [width |-> Ramp(60, 90), red |-> Keyframe(2550), green |-> Ramp(10, 20),
     blue |-> Keyframe(640), alpha |-> Ramp(2550, 0)]

Keys == {"width", "red", "green", "blue", "alpha"}

\* a value of the wrong type for a curve
Wrong == JString("oops")

\* the document with the keys of S present and valid, and identifier id
ValidRoot(id, S) ==
    [id |-> id, type |-> JNull,
     width |-> IF "width" \in S THEN KeyframeJsonValue(DocCurve.width) ELSE JNull,
     red   |-> IF "red"   \in S THEN KeyframeJsonValue(DocCurve.red)   ELSE JNull,
     green |-> IF "green" \in S THEN KeyframeJsonValue(DocCurve.green) ELSE JNull,
     blue  |-> IF "blue"  \in S THEN KeyframeJsonValue(DocCurve.blue)  ELSE JNull,
     alpha |-> IF "alpha" \in S THEN KeyframeJsonValue(DocCurve.alpha) ELSE JNull]

Ids == {JNull, JString("fx1")}

ValidRoots == {ValidRoot(i, S) : i \in Ids, S \in SUBSET Keys}

\* documents with one key of the wrong type, the others all present or all absent
InvalidRoots ==
    {[ValidRoot(i, S) EXCEPT ![k] = Wrong] : i \in Ids, S \in {{}, Keys}, k \in Keys}

Roots == ValidRoots \cup InvalidRoots

\* a document cut short
Truncated(root) == [json |-> root, complete |-> FALSE]

Texts == {toStyledString(r) : r \in Roots} \cup {Truncated(ValidRoot(JNull, Keys)), EmptyString}

\* the instances documents are loaded into
Configured ==
    {Outline, OutlineWith(Ramp(0, 60), Ramp(2546, 3000), Keyframe(1280),
                          Ramp(-50, 2550), Ramp(1280, 0))}

InitJson ==
    /\ fx \in [Inst -> Configured]
    /\ fx["B"] = Outline
    /\ doc = EmptyString
    /\ last = NoCall
    /\ frame = [t \in Threads |-> NullImage]
    /\ thr = [t \in Threads |-> NoInvocation]

\* SetJson(value) on instance A
CallSetJson(value) ==
    /\ fx' = [fx EXCEPT !["A"] = SetJson(fx["A"], value).effect]
    /\ last' = [NoCall EXCEPT !.op = "SetJson", !.arg = value,
                              !.error = SetJson(fx["A"], value).error]
    /\ UNCHANGED <<doc, frame, thr>>

\* SetJsonValue(root) on instance A: the exception of a wrongly typed value
\* reaches the caller as it is
CallSetJsonValue(root) ==
    /\ fx' = [fx EXCEPT !["A"] = SetJsonValue(fx["A"], root).effect]
    /\ last' = [NoCall EXCEPT !.op = "SetJsonValue", !.arg = toStyledString(root),
                              !.error = IF SetJsonValue(fx["A"], root).threw
                                        THEN "std::exception" ELSE "none"]
    /\ UNCHANGED <<doc, frame, thr>>

NextJson ==
    \/ \E value \in Texts : CallSetJson(value)
    \/ \E root \in Roots : CallSetJsonValue(root)

SpecJson == InitJson /\ [][NextJson]_vars

\* a document that parses and gives every key either no value or a curve
ValidDocument(value) ==
    /\ value.complete
    /\ \A k \in Keys : value.json[k].kind \in {"null", "object"}

\* C2: whenever SetJson ends in InvalidJSON, the instance is exactly what it
\* was before the call: each of its five curves is unchanged, none updated
\* while others are not.
C2_AllOrNothing ==
    [][(last'.op = "SetJson" /\ last'.error = "InvalidJSON")
          => Curves(fx'["A"]) = Curves(fx["A"])]_vars

InitRoundTrip ==
    /\ fx \in [Inst -> Effects \cup {Outline}]
    /\ fx["B"] = Outline
    /\ doc = EmptyString
    /\ last = NoCall
    /\ frame = [t \in Threads |-> NullImage]
    /\ thr = [t \in Threads |-> NoInvocation]

\* doc = A.Json()
CallJson ==
    /\ doc' = Json(fx["A"])
    /\ last' = [NoCall EXCEPT !.op = "Json", !.out = Json(fx["A"])]
    /\ UNCHANGED <<fx, frame, thr>>

\* B = Outline(): B is constructed anew
Construct ==
    /\ fx' = [fx EXCEPT !["B"] = Outline]
    /\ last' = [NoCall EXCEPT !.op = "Outline", !.inst = "B"]
    /\ UNCHANGED <<doc, frame, thr>>

\* B.SetJson(doc), B freshly constructed
LoadFresh ==
    /\ fx["B"] = Outline
    /\ fx' = [fx EXCEPT !["B"] = SetJson(fx["B"], doc).effect]
    /\ last' = [NoCall EXCEPT !.op = "SetJson", !.inst = "B", !.arg = doc,
                              !.error = SetJson(fx["B"], doc).error]
    /\ UNCHANGED <<doc, frame, thr>>

NextRoundTrip == CallJson \/ Construct \/ LoadFresh

SpecRoundTrip == InitRoundTrip /\ [][NextRoundTrip]_vars

\* C4: once the document A.Json() has been loaded into a freshly constructed
\* B, the load raised no error, the five curves of B are those of A, and
\* GetFrame on A and on B at the same frame number on the same image has the
\* same outcomes, pixel for pixel.
C4_RoundTrip ==
    (last.op = "SetJson" /\ last.inst = "B" /\ last.arg = Json(fx["A"]))
        => /\ last.error = "none"
           /\ Curves(fx["B"]) = Curves(fx["A"])
           /\ \A img \in Images, n \in Frames :
                 GetFrame(fx["B"], Idle, img, n) = GetFrame(fx["A"], Idle, img, n)

\* the document of an A whose five curves all differ from the defaults has
\* been loaded into B, and B paints a frame as A does and not as a default
\* instance does
C4_Witness ==
    /\ last.op = "SetJson" /\ last.inst = "B" /\ last.arg = Json(fx["A"])
    /\ \A k \in Keys : fx["A"][k] # Outline[k] /\ fx["B"][k] = fx["A"][k]
    /\ \E img \in Images, n \in Frames :
          /\ GetFrame(fx["B"], Idle, img, n) # GetFrame(Outline, Idle, img, n)
          /\ \E o \in GetFrame(fx["B"], Idle, img, n) : o.loc.pc = "returned"

(***************************************************************************)
(* GetFrame invocations of several threads on one instance, each on a      *)
(* frame of its own, interleaved statement by statement.  No thread calls  *)
(* SetJson.  A crash ends the process.                                     *)
(***************************************************************************)
ThreadEffects ==
    {Outline, OutlineWith(Ramp(0, 60), Ramp(2546, 3000), Keyframe(1280),
                          Ramp(-50, 2550), Ramp(1280, 0))}

ThreadImages ==
    { NullImage,
      RowImage(<<Clear, Half, Clear>>),
      GridImage(<< <<White, White>>, <<White, White>> >>) }

InitThreads ==
    /\ fx \in [Inst -> ThreadEffects]
    /\ fx["B"] = Outline
    /\ doc = EmptyString
    /\ last = NoCall
    /\ frame = [t \in Threads |-> NullImage]
    /\ thr = [t \in Threads |-> NoInvocation]

\* thread t calls GetFrame(frame, n) on its own frame, which holds img
Enter(t, img, n) ==
    /\ ~Crashed
    /\ thr[t].loc.pc = "idle"
    /\ thr' = [thr EXCEPT ![t] = [input |-> img, loc |-> EnterGetFrame(thr[t].loc, n)]]
    /\ frame' = [frame EXCEPT ![BufferOf(t)] = img]
    /\ UNCHANGED <<fx, doc, last>>

\* thread t executes its next statement
StepThread(t) ==
    /\ ~Crashed
    /\ \E o \in Step(fx["A"], thr[t].loc, frame[BufferOf(t)]) :
          /\ thr' = [thr EXCEPT ![t].loc = o.loc]
          /\ frame' = [frame EXCEPT ![BufferOf(t)] = o.img]
    /\ UNCHANGED <<fx, doc, last>>

NextThreads ==
    \/ \E t \in Threads, img \in ThreadImages, n \in Frames : Enter(t, img, n)
    \/ \E t \in Threads : StepThread(t)

SpecThreads == InitThreads /\ [][NextThreads]_vars

\* C8: however the statements of the invocations interleave, an invocation
\* that has ended has ended as it can when run alone on its input, leaving
\* that image in its frame, and until an invocation replaces its frame's
\* image the frame holds the input it was handed: no other invocation has
\* written it.
C8_Independent ==
    \A t \in Threads :
        /\ thr[t].loc.pc \in Terminal
              => [loc |-> thr[t].loc, img |-> frame[t]]
                     \in GetFrame(fx["A"], Idle, thr[t].input, thr[t].loc.n)
        /\ thr[t].loc.pc \notin {"idle", "returned"} => frame[t] = thr[t].input

\* one invocation has returned its outlined image while another, on a
\* different image and frame number, is in the middle of its compositing
C8_Witness ==
    /\ thr[1].loc.pc = "returned"
    /\ thr[2].loc.pc = "L96"
    /\ thr[1].input # thr[2].input
    /\ thr[1].loc.n # thr[2].loc.n
    /\ frame[1] # thr[1].input
    /\ ~IsEmpty(frame[2])

====
